---------------------------- MODULE Spec2Model ----------------------------
(***************************************************************************)
(* sha2_hasher: the Sha2Hasher extension trait (sha224, sha256, sha384,    *)
(* sha512 on any path) and the hash_file routine behind it, in its         *)
(* blocking form (src/src/sync.rs, the `sync` feature of src/src/lib.rs)   *)
(* and its suspending form (src/src/async.rs, src/src/sha2_hasher.rs, the  *)
(* `async` feature of src/src/lib.rs).                                     *)
(*                                                                         *)
(* The model runs the two forms side by side on one path of a filesystem   *)
(* that other processes change while the calls are in progress.            *)
(***************************************************************************)
EXTENDS Integers, Sequences, FiniteSets

VARIABLES
    fs,        \* the filesystem entry the path names
    sync,      \* the call of the blocking form
    async,     \* the call of the suspending form
    envSteps   \* changes other processes made to the path so far

vars == <<fs, sync, async, envSteps>>

\* Bound of the model.
MaxEnvSteps == 2

(***************************************************************************)
(* The SHA-2 primitive behind `D: Digest` (sha2::Sha224/256/384/512), as   *)
(* FIPS 180-4 defines it.  A word is a tuple of 16-bit limbs, most         *)
(* significant first: two limbs for the 32-bit family, four for the 64-bit *)
(* family, so that every intermediate value stays a small integer.         *)
(***************************************************************************)
\* XOR and AND of two 4-bit values a and b, tabulated: entry [a + 1][b + 1].
XorTab ==
    << << 0,  1,  2,  3,  4,  5,  6,  7,  8,  9, 10, 11, 12, 13, 14, 15>>,
       << 1,  0,  3,  2,  5,  4,  7,  6,  9,  8, 11, 10, 13, 12, 15, 14>>,
       << 2,  3,  0,  1,  6,  7,  4,  5, 10, 11,  8,  9, 14, 15, 12, 13>>,
       << 3,  2,  1,  0,  7,  6,  5,  4, 11, 10,  9,  8, 15, 14, 13, 12>>,
       << 4,  5,  6,  7,  0,  1,  2,  3, 12, 13, 14, 15,  8,  9, 10, 11>>,
       << 5,  4,  7,  6,  1,  0,  3,  2, 13, 12, 15, 14,  9,  8, 11, 10>>,
       << 6,  7,  4,  5,  2,  3,  0,  1, 14, 15, 12, 13, 10, 11,  8,  9>>,
       << 7,  6,  5,  4,  3,  2,  1,  0, 15, 14, 13, 12, 11, 10,  9,  8>>,
       << 8,  9, 10, 11, 12, 13, 14, 15,  0,  1,  2,  3,  4,  5,  6,  7>>,
       << 9,  8, 11, 10, 13, 12, 15, 14,  1,  0,  3,  2,  5,  4,  7,  6>>,
       <<10, 11,  8,  9, 14, 15, 12, 13,  2,  3,  0,  1,  6,  7,  4,  5>>,
       <<11, 10,  9,  8, 15, 14, 13, 12,  3,  2,  1,  0,  7,  6,  5,  4>>,
       <<12, 13, 14, 15,  8,  9, 10, 11,  4,  5,  6,  7,  0,  1,  2,  3>>,
       <<13, 12, 15, 14,  9,  8, 11, 10,  5,  4,  7,  6,  1,  0,  3,  2>>,
       <<14, 15, 12, 13, 10, 11,  8,  9,  6,  7,  4,  5,  2,  3,  0,  1>>,
       <<15, 14, 13, 12, 11, 10,  9,  8,  7,  6,  5,  4,  3,  2,  1,  0>> >>

AndTab ==
    << << 0,  0,  0,  0,  0,  0,  0,  0,  0,  0,  0,  0,  0,  0,  0,  0>>,
       << 0,  1,  0,  1,  0,  1,  0,  1,  0,  1,  0,  1,  0,  1,  0,  1>>,
       << 0,  0,  2,  2,  0,  0,  2,  2,  0,  0,  2,  2,  0,  0,  2,  2>>,
       << 0,  1,  2,  3,  0,  1,  2,  3,  0,  1,  2,  3,  0,  1,  2,  3>>,
       << 0,  0,  0,  0,  4,  4,  4,  4,  0,  0,  0,  0,  4,  4,  4,  4>>,
       << 0,  1,  0,  1,  4,  5,  4,  5,  0,  1,  0,  1,  4,  5,  4,  5>>,
       << 0,  0,  2,  2,  4,  4,  6,  6,  0,  0,  2,  2,  4,  4,  6,  6>>,
       << 0,  1,  2,  3,  4,  5,  6,  7,  0,  1,  2,  3,  4,  5,  6,  7>>,
       << 0,  0,  0,  0,  0,  0,  0,  0,  8,  8,  8,  8,  8,  8,  8,  8>>,
       << 0,  1,  0,  1,  0,  1,  0,  1,  8,  9,  8,  9,  8,  9,  8,  9>>,
       << 0,  0,  2,  2,  0,  0,  2,  2,  8,  8, 10, 10,  8,  8, 10, 10>>,
       << 0,  1,  2,  3,  0,  1,  2,  3,  8,  9, 10, 11,  8,  9, 10, 11>>,
       << 0,  0,  0,  0,  4,  4,  4,  4,  8,  8,  8,  8, 12, 12, 12, 12>>,
       << 0,  1,  0,  1,  4,  5,  4,  5,  8,  9,  8,  9, 12, 13, 12, 13>>,
       << 0,  0,  2,  2,  4,  4,  6,  6,  8,  8, 10, 10, 12, 12, 14, 14>>,
       << 0,  1,  2,  3,  4,  5,  6,  7,  8,  9, 10, 11, 12, 13, 14, 15>> >>

Nib[a \in Nat, k \in Nat] == (a \div (16 ^ k)) % 16

Xor16[a \in Nat, b \in Nat] ==
      XorTab[Nib[a, 3] + 1][Nib[b, 3] + 1] * 4096
    + XorTab[Nib[a, 2] + 1][Nib[b, 2] + 1] * 256
    + XorTab[Nib[a, 1] + 1][Nib[b, 1] + 1] * 16
    + XorTab[Nib[a, 0] + 1][Nib[b, 0] + 1]

And16[a \in Nat, b \in Nat] ==
      AndTab[Nib[a, 3] + 1][Nib[b, 3] + 1] * 4096
    + AndTab[Nib[a, 2] + 1][Nib[b, 2] + 1] * 256
    + AndTab[Nib[a, 1] + 1][Nib[b, 1] + 1] * 16
    + AndTab[Nib[a, 0] + 1][Nib[b, 0] + 1]

WXor[x \in Seq(Nat), y \in Seq(Nat)] ==
    IF Len(x) = 2
    THEN <<Xor16[x[1], y[1]], Xor16[x[2], y[2]]>>
    ELSE <<Xor16[x[1], y[1]], Xor16[x[2], y[2]], Xor16[x[3], y[3]], Xor16[x[4], y[4]]>>

WAnd[x \in Seq(Nat), y \in Seq(Nat)] ==
    IF Len(x) = 2
    THEN <<And16[x[1], y[1]], And16[x[2], y[2]]>>
    ELSE <<And16[x[1], y[1]], And16[x[2], y[2]], And16[x[3], y[3]], And16[x[4], y[4]]>>

WNot[x \in Seq(Nat)] ==
    IF Len(x) = 2
    THEN <<65535 - x[1], 65535 - x[2]>>
    ELSE <<65535 - x[1], 65535 - x[2], 65535 - x[3], 65535 - x[4]>>

\* Addition modulo 2^w: the carry ripples from the least significant limb (the
\* last) upwards, and the carry out of the first limb is dropped.
WAdd[x \in Seq(Nat), y \in Seq(Nat)] ==
    IF Len(x) = 2
    THEN LET s2 == x[2] + y[2]
             s1 == x[1] + y[1] + (s2 \div 65536)
         IN  <<s1 % 65536, s2 % 65536>>
    ELSE LET s4 == x[4] + y[4]
             s3 == x[3] + y[3] + (s4 \div 65536)
             s2 == x[2] + y[2] + (s3 \div 65536)
             s1 == x[1] + y[1] + (s2 \div 65536)
         IN  <<s1 % 65536, s2 % 65536, s3 % 65536, s4 % 65536>>

\* The limb at position p, counted from the least significant (p = 0).
LimbAt[x \in Seq(Nat), p \in Nat] == x[Len(x) - p]

RotLimb[x \in Seq(Nat), n \in Nat, p \in Nat] ==
    LET q == n \div 16
        r == n % 16
    IN  (LimbAt[x, (p + q) % Len(x)] \div (2 ^ r))
        + (LimbAt[x, (p + q + 1) % Len(x)] % (2 ^ r)) * (2 ^ (16 - r))

ShrLimb[x \in Seq(Nat), n \in Nat, p \in Nat] ==
    LET q  == n \div 16
        r  == n % 16
        lo == IF p + q < Len(x) THEN LimbAt[x, p + q] ELSE 0
        hi == IF p + q + 1 < Len(x) THEN LimbAt[x, p + q + 1] ELSE 0
    IN  (lo \div (2 ^ r)) + (hi % (2 ^ r)) * (2 ^ (16 - r))

RotR[x \in Seq(Nat), n \in Nat] ==
    IF Len(x) = 2
    THEN <<RotLimb[x, n, 1], RotLimb[x, n, 0]>>
    ELSE <<RotLimb[x, n, 3], RotLimb[x, n, 2], RotLimb[x, n, 1], RotLimb[x, n, 0]>>

ShR[x \in Seq(Nat), n \in Nat] ==
    IF Len(x) = 2
    THEN <<ShrLimb[x, n, 1], ShrLimb[x, n, 0]>>
    ELSE <<ShrLimb[x, n, 3], ShrLimb[x, n, 2], ShrLimb[x, n, 1], ShrLimb[x, n, 0]>>

Ch[x \in Seq(Nat), y \in Seq(Nat), z \in Seq(Nat)] == WXor[WAnd[x, y], WAnd[WNot[x], z]]
Maj[x \in Seq(Nat), y \in Seq(Nat), z \in Seq(Nat)] == WXor[WXor[WAnd[x, y], WAnd[x, z]], WAnd[y, z]]

\* Sigma functions: r is the triple of amounts; the small sigmas shift by the
\* third amount instead of rotating.
BigSigma[x \in Seq(Nat), r \in Seq(Nat)] == WXor[WXor[RotR[x, r[1]], RotR[x, r[2]]], RotR[x, r[3]]]
SmallSigma[x \in Seq(Nat), r \in Seq(Nat)] == WXor[WXor[RotR[x, r[1]], RotR[x, r[2]]], ShR[x, r[3]]]

K256 ==
    << <<\h428a, \h2f98>>, <<\h7137, \h4491>>, <<\hb5c0, \hfbcf>>, <<\he9b5, \hdba5>>,
       <<\h3956, \hc25b>>, <<\h59f1, \h11f1>>, <<\h923f, \h82a4>>, <<\hab1c, \h5ed5>>,
       <<\hd807, \haa98>>, <<\h1283, \h5b01>>, <<\h2431, \h85be>>, <<\h550c, \h7dc3>>,
       <<\h72be, \h5d74>>, <<\h80de, \hb1fe>>, <<\h9bdc, \h06a7>>, <<\hc19b, \hf174>>,
       <<\he49b, \h69c1>>, <<\hefbe, \h4786>>, <<\h0fc1, \h9dc6>>, <<\h240c, \ha1cc>>,
       <<\h2de9, \h2c6f>>, <<\h4a74, \h84aa>>, <<\h5cb0, \ha9dc>>, <<\h76f9, \h88da>>,
       <<\h983e, \h5152>>, <<\ha831, \hc66d>>, <<\hb003, \h27c8>>, <<\hbf59, \h7fc7>>,
       <<\hc6e0, \h0bf3>>, <<\hd5a7, \h9147>>, <<\h06ca, \h6351>>, <<\h1429, \h2967>>,
       <<\h27b7, \h0a85>>, <<\h2e1b, \h2138>>, <<\h4d2c, \h6dfc>>, <<\h5338, \h0d13>>,
       <<\h650a, \h7354>>, <<\h766a, \h0abb>>, <<\h81c2, \hc92e>>, <<\h9272, \h2c85>>,
       <<\ha2bf, \he8a1>>, <<\ha81a, \h664b>>, <<\hc24b, \h8b70>>, <<\hc76c, \h51a3>>,
       <<\hd192, \he819>>, <<\hd699, \h0624>>, <<\hf40e, \h3585>>, <<\h106a, \ha070>>,
       <<\h19a4, \hc116>>, <<\h1e37, \h6c08>>, <<\h2748, \h774c>>, <<\h34b0, \hbcb5>>,
       <<\h391c, \h0cb3>>, <<\h4ed8, \haa4a>>, <<\h5b9c, \hca4f>>, <<\h682e, \h6ff3>>,
       <<\h748f, \h82ee>>, <<\h78a5, \h636f>>, <<\h84c8, \h7814>>, <<\h8cc7, \h0208>>,
       <<\h90be, \hfffa>>, <<\ha450, \h6ceb>>, <<\hbef9, \ha3f7>>, <<\hc671, \h78f2>> >>

K512 ==
    << <<\h428a, \h2f98, \hd728, \hae22>>, <<\h7137, \h4491, \h23ef, \h65cd>>,
       <<\hb5c0, \hfbcf, \hec4d, \h3b2f>>, <<\he9b5, \hdba5, \h8189, \hdbbc>>,
       <<\h3956, \hc25b, \hf348, \hb538>>, <<\h59f1, \h11f1, \hb605, \hd019>>,
       <<\h923f, \h82a4, \haf19, \h4f9b>>, <<\hab1c, \h5ed5, \hda6d, \h8118>>,
       <<\hd807, \haa98, \ha303, \h0242>>, <<\h1283, \h5b01, \h4570, \h6fbe>>,
       <<\h2431, \h85be, \h4ee4, \hb28c>>, <<\h550c, \h7dc3, \hd5ff, \hb4e2>>,
       <<\h72be, \h5d74, \hf27b, \h896f>>, <<\h80de, \hb1fe, \h3b16, \h96b1>>,
       <<\h9bdc, \h06a7, \h25c7, \h1235>>, <<\hc19b, \hf174, \hcf69, \h2694>>,
       <<\he49b, \h69c1, \h9ef1, \h4ad2>>, <<\hefbe, \h4786, \h384f, \h25e3>>,
       <<\h0fc1, \h9dc6, \h8b8c, \hd5b5>>, <<\h240c, \ha1cc, \h77ac, \h9c65>>,
       <<\h2de9, \h2c6f, \h592b, \h0275>>, <<\h4a74, \h84aa, \h6ea6, \he483>>,
       <<\h5cb0, \ha9dc, \hbd41, \hfbd4>>, <<\h76f9, \h88da, \h8311, \h53b5>>,
       <<\h983e, \h5152, \hee66, \hdfab>>, <<\ha831, \hc66d, \h2db4, \h3210>>,
       <<\hb003, \h27c8, \h98fb, \h213f>>, <<\hbf59, \h7fc7, \hbeef, \h0ee4>>,
       <<\hc6e0, \h0bf3, \h3da8, \h8fc2>>, <<\hd5a7, \h9147, \h930a, \ha725>>,
       <<\h06ca, \h6351, \he003, \h826f>>, <<\h1429, \h2967, \h0a0e, \h6e70>>,
       <<\h27b7, \h0a85, \h46d2, \h2ffc>>, <<\h2e1b, \h2138, \h5c26, \hc926>>,
       <<\h4d2c, \h6dfc, \h5ac4, \h2aed>>, <<\h5338, \h0d13, \h9d95, \hb3df>>,
       <<\h650a, \h7354, \h8baf, \h63de>>, <<\h766a, \h0abb, \h3c77, \hb2a8>>,
       <<\h81c2, \hc92e, \h47ed, \haee6>>, <<\h9272, \h2c85, \h1482, \h353b>>,
       <<\ha2bf, \he8a1, \h4cf1, \h0364>>, <<\ha81a, \h664b, \hbc42, \h3001>>,
       <<\hc24b, \h8b70, \hd0f8, \h9791>>, <<\hc76c, \h51a3, \h0654, \hbe30>>,
       <<\hd192, \he819, \hd6ef, \h5218>>, <<\hd699, \h0624, \h5565, \ha910>>,
       <<\hf40e, \h3585, \h5771, \h202a>>, <<\h106a, \ha070, \h32bb, \hd1b8>>,
       <<\h19a4, \hc116, \hb8d2, \hd0c8>>, <<\h1e37, \h6c08, \h5141, \hab53>>,
       <<\h2748, \h774c, \hdf8e, \heb99>>, <<\h34b0, \hbcb5, \he19b, \h48a8>>,
       <<\h391c, \h0cb3, \hc5c9, \h5a63>>, <<\h4ed8, \haa4a, \he341, \h8acb>>,
       <<\h5b9c, \hca4f, \h7763, \he373>>, <<\h682e, \h6ff3, \hd6b2, \hb8a3>>,
       <<\h748f, \h82ee, \h5def, \hb2fc>>, <<\h78a5, \h636f, \h4317, \h2f60>>,
       <<\h84c8, \h7814, \ha1f0, \hab72>>, <<\h8cc7, \h0208, \h1a64, \h39ec>>,
       <<\h90be, \hfffa, \h2363, \h1e28>>, <<\ha450, \h6ceb, \hde82, \hbde9>>,
       <<\hbef9, \ha3f7, \hb2c6, \h7915>>, <<\hc671, \h78f2, \he372, \h532b>>,
       <<\hca27, \h3ece, \hea26, \h619c>>, <<\hd186, \hb8c7, \h21c0, \hc207>>,
       <<\heada, \h7dd6, \hcde0, \heb1e>>, <<\hf57d, \h4f7f, \hee6e, \hd178>>,
       <<\h06f0, \h67aa, \h7217, \h6fba>>, <<\h0a63, \h7dc5, \ha2c8, \h98a6>>,
       <<\h113f, \h9804, \hbef9, \h0dae>>, <<\h1b71, \h0b35, \h131c, \h471b>>,
       <<\h28db, \h77f5, \h2304, \h7d84>>, <<\h32ca, \hab7b, \h40c7, \h2493>>,
       <<\h3c9e, \hbe0a, \h15c9, \hbebc>>, <<\h431d, \h67c4, \h9c10, \h0d4c>>,
       <<\h4cc5, \hd4be, \hcb3e, \h42b6>>, <<\h597f, \h299c, \hfc65, \h7e2a>>,
       <<\h5fcb, \h6fab, \h3ad6, \hfaec>>, <<\h6c44, \h198c, \h4a47, \h5817>> >>

H224 ==
    << <<\hc105, \h9ed8>>, <<\h367c, \hd507>>, <<\h3070, \hdd17>>, <<\hf70e, \h5939>>,
       <<\hffc0, \h0b31>>, <<\h6858, \h1511>>, <<\h64f9, \h8fa7>>, <<\hbefa, \h4fa4>> >>

H256 ==
    << <<\h6a09, \he667>>, <<\hbb67, \hae85>>, <<\h3c6e, \hf372>>, <<\ha54f, \hf53a>>,
       <<\h510e, \h527f>>, <<\h9b05, \h688c>>, <<\h1f83, \hd9ab>>, <<\h5be0, \hcd19>> >>

H384 ==
    << <<\hcbbb, \h9d5d, \hc105, \h9ed8>>, <<\h629a, \h292a, \h367c, \hd507>>,
       <<\h9159, \h015a, \h3070, \hdd17>>, <<\h152f, \hecd8, \hf70e, \h5939>>,
       <<\h6733, \h2667, \hffc0, \h0b31>>, <<\h8eb4, \h4a87, \h6858, \h1511>>,
       <<\hdb0c, \h2e0d, \h64f9, \h8fa7>>, <<\h47b5, \h481d, \hbefa, \h4fa4>> >>

H512 ==
    << <<\h6a09, \he667, \hf3bc, \hc908>>, <<\hbb67, \hae85, \h84ca, \ha73b>>,
       <<\h3c6e, \hf372, \hfe94, \hf82b>>, <<\ha54f, \hf53a, \h5f1d, \h36f1>>,
       <<\h510e, \h527f, \hade6, \h82d1>>, <<\h9b05, \h688c, \h2b3e, \h6c1f>>,
       <<\h1f83, \hd9ab, \hfb41, \hbd6b>>, <<\h5be0, \hcd19, \h137e, \h2179>> >>

\* The two compression cores: SHA-224/256 on 32-bit words, SHA-384/512 on
\* 64-bit words.
Core32 ==
    [limbs |-> 2, rounds |-> 64, K |-> K256, blockBytes |-> 64, lenBytes |-> 8,
     S0 |-> <<2, 13, 22>>, S1 |-> <<6, 11, 25>>,
     s0 |-> <<7, 18, 3>>, s1 |-> <<17, 19, 10>>]

Core64 ==
    [limbs |-> 4, rounds |-> 80, K |-> K512, blockBytes |-> 128, lenBytes |-> 16,
     S0 |-> <<28, 34, 39>>, S1 |-> <<14, 18, 41>>,
     s0 |-> <<1, 8, 7>>, s1 |-> <<19, 61, 6>>]

\* The four digest types the trait methods select (D in hash_file::<D, _>).
Sha224 == [name |-> "Sha224", core |-> Core32, iv |-> H224, outBytes |-> 28]
Sha256 == [name |-> "Sha256", core |-> Core32, iv |-> H256, outBytes |-> 32]
Sha384 == [name |-> "Sha384", core |-> Core64, iv |-> H384, outBytes |-> 48]
Sha512 == [name |-> "Sha512", core |-> Core64, iv |-> H512, outBytes |-> 64]

Zeros(k) == [i \in 1..k |-> 0]

\* n as k big-endian bytes (n is below 2^31: the bytes above the low four
\* are zero).
BEBytes(n, k) ==
    [i \in 1..k |-> IF k - i > 3 THEN 0 ELSE (n \div (256 ^ (k - i))) % 256]

\* The padded message: the data, a 0x80 byte, zeros, and the bit length.
Pad(data, c) ==
    LET used == (Len(data) + 1 + c.lenBytes) % c.blockBytes
        fill == (c.blockBytes - used) % c.blockBytes
    IN  data \o <<128>> \o Zeros(fill) \o BEBytes(8 * Len(data), c.lenBytes)

\* The word of c.limbs big-endian 16-bit limbs at bytes i.. of m.
WordAt(m, i, c) ==
    IF c.limbs = 2
    THEN <<256 * m[i] + m[i + 1], 256 * m[i + 2] + m[i + 3]>>
    ELSE <<256 * m[i] + m[i + 1], 256 * m[i + 2] + m[i + 3],
           256 * m[i + 4] + m[i + 5], 256 * m[i + 6] + m[i + 7]>>

\* The 16 words of the block of m that starts at byte i.
BlockWords(m, i, c) == [t \in 1..16 |-> WordAt(m, i + 2 * c.limbs * (t - 1), c)]

\* The message schedule: ScheduleTo grows W to n words (by halves, which keeps
\* the evaluation shallow), Schedule to all c.rounds words.
RECURSIVE ScheduleTo(_, _, _)
ScheduleTo(W, n, c) ==
    LET t == Len(W) + 1
    IN  IF t > n THEN W
        ELSE IF t = n
        THEN Append(W, WAdd[WAdd[SmallSigma[W[t - 2], c.s1], W[t - 7]],
                            WAdd[SmallSigma[W[t - 15], c.s0], W[t - 16]]])
        ELSE ScheduleTo(ScheduleTo(W, (t + n) \div 2, c), n, c)

Schedule(W, c) == ScheduleTo(W, c.rounds, c)

Round(v, k, w, c) ==
    LET T1 == WAdd[WAdd[WAdd[v[8], BigSigma[v[5], c.S1]], Ch[v[5], v[6], v[7]]],
                   WAdd[k, w]]
        T2 == WAdd[BigSigma[v[1], c.S0], Maj[v[1], v[2], v[3]]]
    IN  <<WAdd[T1, T2], v[1], v[2], v[3], WAdd[v[4], T1], v[5], v[6], v[7]>>

\* The working variables after each round, from the chaining value vs[1] on:
\* RoundsTo runs the rounds up to round n (by halves, as above).
RECURSIVE RoundsTo(_, _, _, _)
RoundsTo(vs, W, n, c) ==
    LET t == Len(vs)
    IN  IF t > n THEN vs
        ELSE IF t = n
        THEN Append(vs, Round(vs[t], c.K[t], W[t], c))
        ELSE RoundsTo(RoundsTo(vs, W, (t + n) \div 2, c), W, n, c)

Compress(h, W, c) ==
    LET v == RoundsTo(<<h>>, W, Len(W), c)[Len(W) + 1]
    IN  <<WAdd[h[1], v[1]], WAdd[h[2], v[2]], WAdd[h[3], v[3]], WAdd[h[4], v[4]],
          WAdd[h[5], v[5]], WAdd[h[6], v[6]], WAdd[h[7], v[7]], WAdd[h[8], v[8]]>>

\* The chaining value after the blocks of m from byte i on.
RECURSIVE Blocks(_, _, _, _)
Blocks(h, m, i, c) ==
    IF i > Len(m) THEN h
    ELSE Blocks(Compress(h, Schedule(BlockWords(m, i, c), c), c),
                m, i + c.blockBytes, c)

\* The bytes of a word, most significant first.
WordBytes(w) ==
    IF Len(w) = 2
    THEN <<w[1] \div 256, w[1] % 256, w[2] \div 256, w[2] % 256>>
    ELSE <<w[1] \div 256, w[1] % 256, w[2] \div 256, w[2] % 256,
           w[3] \div 256, w[3] % 256, w[4] \div 256, w[4] % 256>>

\* The bytes of the eight words of the chaining value, in order.
StateBytes(h) ==
    WordBytes(h[1]) \o WordBytes(h[2]) \o WordBytes(h[3]) \o WordBytes(h[4]) \o
    WordBytes(h[5]) \o WordBytes(h[6]) \o WordBytes(h[7]) \o WordBytes(h[8])

\* D::new(), update(data), finalize(): the digest bytes of data.
Sha2(D, data) ==
    SubSeq(StateBytes(Blocks(D.iv, Pad(data, D.core), 1, D.core)), 1, D.outBytes)

(***************************************************************************)
(* The filesystem entry the path names, as the operating system answers    *)
(* queries about it.                                                       *)
(***************************************************************************)
\* The bytes of the fixture the tests of the blocking form hash (.gitignore:
\* "/target" and a line feed), of the fixture the tests of the suspending form
\* hash (tests/data/test.txt: "Hello, World!" and a line feed), the bytes of
\* "abc", and the empty file.
Fixture == <<47, 116, 97, 114, 103, 101, 116, 10>>
TestTxt == <<72, 101, 108, 108, 111, 44, 32, 87, 111, 114, 108, 100, 33, 10>>
Abc == <<97, 98, 99>>
Empty == <<>>
Contents == {Empty, Abc, Fixture, TestTxt}

Missing == [kind |-> "missing", data |-> <<>>, readable |-> FALSE]
Directory == [kind |-> "dir", data |-> <<>>, readable |-> TRUE]
\* A component of the path may not be searched: every lookup is refused.
Denied == [kind |-> "denied", data |-> <<>>, readable |-> FALSE]
\* A symbolic link whose target does not exist.
Dangling == [kind |-> "dangling", data |-> <<>>, readable |-> FALSE]
RegularFile(d, r) == [kind |-> "file", data |-> d, readable |-> r]

Entries ==
    {Missing, Directory, Denied, Dangling}
        \cup {RegularFile(d, r) : d \in Contents, r \in BOOLEAN}

\* No entry seen (yet) by a query.
Unseen == [kind |-> "unseen"]

(***************************************************************************)
(* Results: Result<String, std::io::Error>.                                *)
(***************************************************************************)
None == [tag |-> "none"]
Ok(hex) == [tag |-> "ok", hex |-> hex]
Err(kind, msg) == [tag |-> "err", kind |-> kind, msg |-> msg]

InvalidPathMsg == "Invalid path: must be an existing and accessible file"

\* std::fs::metadata(path): follows symbolic links.
metadata(e) ==
    CASE e.kind = "file" -> [tag |-> "ok", is_file |-> TRUE]
      [] e.kind = "dir" -> [tag |-> "ok", is_file |-> FALSE]
      [] e.kind = "denied" -> Err("PermissionDenied", "os error 13")
      [] OTHER -> Err("NotFound", "os error 2")

\* Path::is_file: metadata(path).map(|m| m.is_file()).unwrap_or(false).
is_file(e) == LET md == metadata(e) IN md.tag = "ok" /\ md.is_file

\* A lookup that counts every failure other than absence as presence; the
\* properties of the error kinds tell it from Path::exists.
exists_lenient(e) == e.kind # "missing"

\* Path::exists: metadata(path).is_ok().
exists(e) == metadata(e).tag = "ok"

\* What opening the path for read(path) answers: the file, or the error that
\* read returns.
open(e) ==
    CASE e.kind = "file" /\ e.readable -> [tag |-> "ok"]
      [] e.kind = "file" -> Err("PermissionDenied", "os error 13")
      [] e.kind = "dir" -> Err("IsADirectory", "os error 21")
      [] e.kind = "denied" -> Err("PermissionDenied", "os error 13")
      [] OTHER -> Err("NotFound", "os error 2")

(***************************************************************************)
(* read(path) is std::fs::read: it opens the file, reserves a buffer of    *)
(* the length the file has then, and fills it with io::default_read_to_end.*)
(* size is the length of the buffer, cap its capacity and startCap the     *)
(* capacity reserved at the open.                                          *)
(***************************************************************************)
\* The bytes of a probe (io::PROBE_SIZE) and the least capacity a growing
\* Vec<u8> takes (RawVec::MIN_NON_ZERO_CAP).
PROBE_SIZE == 32
MIN_NON_ZERO_CAP == 8
\* The unit the largest read is rounded to (io::DEFAULT_BUF_SIZE).
DEFAULT_BUF_SIZE == 8192

Largest(a, b) == IF a < b THEN b ELSE a

\* RawVec::grow_amortized: the capacity after growing to hold `required`.
grow_amortized(cap, required) ==
    Largest(MIN_NON_ZERO_CAP, Largest(2 * cap, required))

\* if buf.len() == buf.capacity() && buf.capacity() == start_cap: the buffer
\* reserved at the open is full (or was empty), the next read is a probe.
small_probe_read(size, cap, startCap) == size = cap /\ cap = startCap

\* if buf.len() == buf.capacity() { buf.try_reserve(PROBE_SIZE)?; }
try_reserve(size, cap) ==
    IF size = cap THEN grow_amortized(cap, size + PROBE_SIZE) ELSE cap

\* let mut max_read_size = size_hint.and_then(|s|
\*     s.checked_add(1024)?.checked_next_multiple_of(DEFAULT_BUF_SIZE)):
\* the most bytes a read asks for, fixed by the length at the open.
max_read_size(startCap) ==
    ((startCap + 1024 + DEFAULT_BUF_SIZE - 1) \div DEFAULT_BUF_SIZE) * DEFAULT_BUF_SIZE

\* The bytes the next read asks for: a probe, or the spare capacity up to
\* max_read_size.
read_size(size, cap, startCap) ==
    IF small_probe_read(size, cap, startCap)
    THEN PROBE_SIZE
    ELSE IF try_reserve(size, cap) - size < max_read_size(startCap)
         THEN try_reserve(size, cap) - size
         ELSE max_read_size(startCap)

\* The bytes a read of the file returns at offset Len(buf): those asked for,
\* or those left.
next_chunk(buf, cap, startCap, data) ==
    SubSeq(data, Len(buf) + 1,
           IF Len(buf) + read_size(Len(buf), cap, startCap) < Len(data)
           THEN Len(buf) + read_size(Len(buf), cap, startCap)
           ELSE Len(data))

\* The capacity after a read that returned n bytes: a probe is appended with
\* extend_from_slice, another read fills the spare capacity.
next_cap(size, cap, startCap, n) ==
    IF small_probe_read(size, cap, startCap)
    THEN IF size + n > cap THEN grow_amortized(cap, size + n) ELSE cap
    ELSE try_reserve(size, cap)

\* const_hex::ToHexExt::encode_hex: two lowercase digits per byte.
HexChars ==
    <<"0", "1", "2", "3", "4", "5", "6", "7", "8", "9", "a", "b", "c", "d", "e", "f">>

encode_hex(bytes) ==
    [i \in 1..(2 * Len(bytes)) |->
        LET b == bytes[(i + 1) \div 2]
        IN  HexChars[(IF i % 2 = 1 THEN b \div 16 ELSE b % 16) + 1]]

\* Every buffer a read can hold in this model: from the empty buffer reserved
\* for any content, the bytes the next read returns from any content longer
\* than the buffer (the file may be written between two reads).
MoreBuffers(S) ==
    S \cup UNION {{[buf |-> b.buf \o next_chunk(b.buf, b.cap, b.startCap, d),
                    cap |-> next_cap(Len(b.buf), b.cap, b.startCap,
                                     Len(next_chunk(b.buf, b.cap, b.startCap, d))),
                    startCap |-> b.startCap] :
                       d \in {e \in Contents : Len(e) > Len(b.buf)}} : b \in S}

RECURSIVE AllBuffers(_)
AllBuffers(S) == IF MoreBuffers(S) = S THEN S ELSE AllBuffers(MoreBuffers(S))

ReadBuffers ==
    {b.buf : b \in AllBuffers({[buf |-> <<>>, cap |-> Len(d), startCap |-> Len(d)] :
                                   d \in Contents})}

\* The digests of those buffers, evaluated once.
KnownDigests ==
    {<<D.name, b, Sha2(D, b)>> : D \in {Sha224, Sha256, Sha384, Sha512}, b \in ReadBuffers}

\* let mut hasher = D::new(); hasher.update(bytes); hasher.finalize(): Sha2,
\* looked up in KnownDigests where the bytes are tabulated there.
digest(D, bytes) ==
    IF bytes \in ReadBuffers
    THEN (CHOOSE e \in KnownDigests : e[1] = D.name /\ e[2] = bytes)[3]
    ELSE Sha2(D, bytes)

(***************************************************************************)
(* A call of hash_file.  pc is the statement the call is about to execute; *)
(* buf is the buffer read(path) fills, cap its capacity and startCap the   *)
(* capacity reserved at the open; fdData is the content of the file it has *)
(* open and fdLive tells whether the path still names that file; pool is   *)
(* what the read of the suspending form left for the task to pick up.  The *)
(* other fields record what the call did: the entry each query saw, the    *)
(* order of its steps, the byte strings handed to hasher.update, and how   *)
(* many changes the path had seen when the call began.                     *)
(***************************************************************************)
Idle ==
    [pc |-> "idle", method |-> "none", buf |-> <<>>, cap |-> 0, startCap |-> 0,
     fdData |-> <<>>, fdLive |-> FALSE, eof |-> FALSE, pool |-> None,
     result |-> None,
     atIsFile |-> Unseen, atExists |-> Unseen, atOpen |-> Unseen,
     trace |-> <<>>, updates |-> <<>>, envAtCall |-> 0]

Methods == {"sha224", "sha256", "sha384", "sha512"}

\* A selection with sha384 bound to the SHA-512 hasher; the property of the
\* digest sizes tells it from sync_digest.
sync_digest_slip(method) ==
    CASE method = "sha224" -> Sha224
      [] method = "sha256" -> Sha256
      [] OTHER -> Sha512

\* impl Sha2Hasher for P (blocking): the digest type each method selects.
sync_digest(method) ==
    CASE method = "sha224" -> Sha224
      [] method = "sha256" -> Sha256
      [] method = "sha384" -> Sha384
      [] OTHER -> Sha512

\* let path = path.as_ref(): the call begins.
sync_start(method) == [Idle EXCEPT !.pc = "is_file", !.method = method]

\* if !path.is_file() { ... }
sync_is_file(call, e) ==
    [call EXCEPT !.atIsFile = e,
                 !.trace = Append(@, "is_file"),
                 !.pc = IF is_file(e) THEN "read" ELSE "exists"]

\* The error built without the return: the call goes on to the read; the
\* property of the order of the steps tells it from sync_exists.
sync_exists_no_return(call, e) ==
    [call EXCEPT !.atExists = e,
                 !.trace = Append(@, "exists"),
                 !.pc = "read"]

\* The two kinds exchanged; the property of the missing path tells it from
\* sync_exists.
sync_exists_swapped(call, e) ==
    [call EXCEPT !.atExists = e,
                 !.trace = Append(@, "exists"),
                 !.result = Err(IF exists(e) THEN "NotFound" ELSE "InvalidInput",
                                InvalidPathMsg),
                 !.pc = "done"]

\* return Err(Error::new(if path.exists() { InvalidInput } else { NotFound }, "..."))
sync_exists(call, e) ==
    [call EXCEPT !.atExists = e,
                 !.trace = Append(@, "exists"),
                 !.result = Err(IF exists(e) THEN "InvalidInput" ELSE "NotFound",
                                InvalidPathMsg),
                 !.pc = "done"]

\* A read whose error is replaced by the error of the check; the property of
\* the propagated error tells it from sync_read_open.
sync_read_open_wrapped(call, e) ==
    [call EXCEPT !.atOpen = e,
                 !.trace = Append(@, "read"),
                 !.cap = Len(e.data),
                 !.startCap = Len(e.data),
                 !.fdData = e.data,
                 !.fdLive = open(e).tag # "err",
                 !.result = IF open(e).tag = "err"
                            THEN Err("InvalidInput", InvalidPathMsg)
                            ELSE None,
                 !.pc = IF open(e).tag = "err" THEN "done" ELSE "reading"]

\* read(path)?: the file is opened and a buffer of its length reserved, or
\* the error is returned as it is.
sync_read_open(call, e) ==
    IF open(e).tag = "err"
    THEN [call EXCEPT !.atOpen = e,
                      !.trace = Append(@, "read"),
                      !.result = open(e),
                      !.pc = "done"]
    ELSE [call EXCEPT !.atOpen = e,
                      !.trace = Append(@, "read"),
                      !.cap = Len(e.data),
                      !.startCap = Len(e.data),
                      !.fdData = e.data,
                      !.fdLive = TRUE,
                      !.pc = "reading"]

\* The update left out: the hasher is finalized as it was created; the
\* property of the complete contents tells it from sync_finish.
sync_finish_no_update(call) ==
    [call EXCEPT !.eof = TRUE,
                 !.fdLive = FALSE,
                 !.trace = Append(@, "hash"),
                 !.result = Ok(encode_hex(digest(sync_digest(call.method), <<>>))),
                 !.pc = "done"]

\* The read returned no byte: the file is closed;
\* hasher.update(bytes); Ok(hasher.finalize().encode_hex())
sync_finish(call) ==
    [call EXCEPT !.eof = TRUE,
                 !.fdLive = FALSE,
                 !.updates = Append(@, call.buf),
                 !.trace = Append(@, "hash"),
                 !.result = Ok(encode_hex(digest(sync_digest(call.method), call.buf))),
                 !.pc = "done"]

\* read(path), once open: the bytes the next read returns, or when it
\* returns none the whole buffer, which is hashed.
sync_read_more(call) ==
    IF Len(call.buf) < Len(call.fdData)
    THEN [call EXCEPT
            !.buf = @ \o next_chunk(call.buf, call.cap, call.startCap, call.fdData),
            !.cap = next_cap(Len(call.buf), call.cap, call.startCap,
                             Len(next_chunk(call.buf, call.cap, call.startCap,
                                            call.fdData)))]
    ELSE sync_finish(call)

\* impl Sha2Hasher for P (suspending): the digest type each method selects.
async_digest(method) ==
    CASE method = "sha224" -> Sha224
      [] method = "sha256" -> Sha256
      [] method = "sha384" -> Sha384
      [] OTHER -> Sha512

async_start(method) == [Idle EXCEPT !.pc = "is_file", !.method = method]

async_is_file(call, e) ==
    [call EXCEPT !.atIsFile = e,
                 !.trace = Append(@, "is_file"),
                 !.pc = IF is_file(e) THEN "read" ELSE "exists"]

\* An error that is NotFound whatever the path names; the property of the
\* two forms tells it from async_exists.
async_exists_not_found(call, e) ==
    [call EXCEPT !.atExists = e,
                 !.trace = Append(@, "exists"),
                 !.result = Err("NotFound", InvalidPathMsg),
                 !.pc = "done"]

async_exists(call, e) ==
    [call EXCEPT !.atExists = e,
                 !.trace = Append(@, "exists"),
                 !.result = Err(IF exists(e) THEN "InvalidInput" ELSE "NotFound",
                                InvalidPathMsg),
                 !.pc = "done"]

\* A read whose error is dropped and gives no bytes (unwrap_or_default); the
\* property of the race between check and read tells it from async_read_open.
async_read_open_default(call, e) ==
    [call EXCEPT !.atOpen = e,
                 !.trace = Append(@, "read"),
                 !.cap = IF open(e).tag = "err" THEN 0 ELSE Len(e.data),
                 !.startCap = IF open(e).tag = "err" THEN 0 ELSE Len(e.data),
                 !.fdData = IF open(e).tag = "err" THEN <<>> ELSE e.data,
                 !.fdLive = open(e).tag # "err",
                 !.pc = "reading"]

\* read(path).await: tokio runs std::fs::read on its blocking pool while the
\* task is suspended.  The file is opened and a buffer of its length
\* reserved, or the read ends with the error, which waits for the task.
async_read_open(call, e) ==
    IF open(e).tag = "err"
    THEN [call EXCEPT !.atOpen = e,
                      !.trace = Append(@, "read"),
                      !.pool = open(e),
                      !.pc = "ready"]
    ELSE [call EXCEPT !.atOpen = e,
                      !.trace = Append(@, "read"),
                      !.cap = Len(e.data),
                      !.startCap = Len(e.data),
                      !.fdData = e.data,
                      !.fdLive = TRUE,
                      !.pc = "reading"]

\* The read on the pool, once open: the bytes the next read returns, or when
\* it returns none the file is closed and the buffer waits for the task.
async_read_more(call) ==
    IF Len(call.buf) < Len(call.fdData)
    THEN [call EXCEPT
            !.buf = @ \o next_chunk(call.buf, call.cap, call.startCap, call.fdData),
            !.cap = next_cap(Len(call.buf), call.cap, call.startCap,
                             Len(next_chunk(call.buf, call.cap, call.startCap,
                                            call.fdData)))]
    ELSE [call EXCEPT !.eof = TRUE,
                      !.fdLive = FALSE,
                      !.pool = [tag |-> "ok"],
                      !.pc = "ready"]

\* hasher.update(bytes); Ok(hasher.finalize().encode_hex())
async_finish(call) ==
    [call EXCEPT !.updates = Append(@, call.buf),
                 !.trace = Append(@, "hash"),
                 !.result = Ok(encode_hex(digest(async_digest(call.method), call.buf))),
                 !.pc = "done"]

\* The task is polled again after the read ended: `?` returns the error of
\* the read as it is, or the bytes are hashed.
async_resume(call) ==
    IF call.pool.tag = "err"
    THEN [call EXCEPT !.result = call.pool, !.pc = "done"]
    ELSE async_finish(call)

\* A cancellation that hashes what the read has delivered so far; the
\* property of cancellation tells it from async_cancel.
async_cancel_partial(call) ==
    [call EXCEPT !.pc = "cancelled",
                 !.updates = Append(@, call.buf),
                 !.result = Ok(encode_hex(digest(async_digest(call.method), call.buf)))]

\* The future is dropped at the await, while the read runs on the pool or
\* after it ended and before the task is polled again: nothing after the
\* await runs.
async_cancel(call) == [call EXCEPT !.pc = "cancelled"]

(***************************************************************************)
(* Other processes.  A write changes the content of the file in place (a   *)
(* call that has the file open reads the new content from then on); a      *)
(* replacement puts another entry at the path (a call that has the old     *)
(* file open keeps reading the old file).                                  *)
(***************************************************************************)
written(call, d) == IF call.fdLive THEN [call EXCEPT !.fdData = d] ELSE call
detached(call) == [call EXCEPT !.fdLive = FALSE]

Resting == {"idle", "done", "cancelled"}

\* The two calls have made the same steps.  The steps of the two calls
\* commute (each changes its own call only), so the blocking call steps first
\* and the suspending call follows; the path changes between steps both have
\* made, which compares the two forms on the same history of the path, and
\* while the read of the suspending call has ended and its task waits.
Aligned ==
    \/ async.pc = "cancelled"
    \/ sync.pc = async.pc /\ Len(sync.buf) = Len(async.buf)

\* The blocking call steps when the two are aligned, the suspending call
\* when it is behind.
SyncTurn == Aligned
AsyncTurn == ~Aligned

\* A call is in progress.  (What happens to the path between calls is
\* covered by the initial entry being any entry.)
InCall == sync.pc \notin Resting \/ async.pc \notin Resting

(***************************************************************************)
(* Actions.                                                                *)
(***************************************************************************)
Init ==
    /\ fs \in Entries
    /\ sync = Idle
    /\ async = Idle
    /\ envSteps = 0

\* path.sha224() ... path.sha512(), in the blocking and in the suspending form.
Call(method) ==
    /\ sync.pc \in Resting
    /\ async.pc \in Resting
    /\ sync' = [sync_start(method) EXCEPT !.envAtCall = envSteps]
    /\ async' = [async_start(method) EXCEPT !.envAtCall = envSteps]
    /\ UNCHANGED <<fs, envSteps>>

SyncIsFile ==
    /\ SyncTurn
    /\ sync.pc = "is_file"
    /\ sync' = sync_is_file(sync, fs)
    /\ UNCHANGED <<fs, async, envSteps>>

SyncExists ==
    /\ SyncTurn
    /\ sync.pc = "exists"
    /\ sync' = sync_exists(sync, fs)
    /\ UNCHANGED <<fs, async, envSteps>>

SyncReadOpen ==
    /\ SyncTurn
    /\ sync.pc = "read"
    /\ sync' = sync_read_open(sync, fs)
    /\ UNCHANGED <<fs, async, envSteps>>

SyncReadMore ==
    /\ SyncTurn
    /\ sync.pc = "reading"
    /\ sync' = sync_read_more(sync)
    /\ UNCHANGED <<fs, async, envSteps>>

AsyncIsFile ==
    /\ AsyncTurn
    /\ async.pc = "is_file"
    /\ async' = async_is_file(async, fs)
    /\ UNCHANGED <<fs, sync, envSteps>>

AsyncExists ==
    /\ AsyncTurn
    /\ async.pc = "exists"
    /\ async' = async_exists(async, fs)
    /\ UNCHANGED <<fs, sync, envSteps>>

AsyncReadOpen ==
    /\ AsyncTurn
    /\ async.pc = "read"
    /\ async' = async_read_open(async, fs)
    /\ UNCHANGED <<fs, sync, envSteps>>

AsyncReadMore ==
    /\ AsyncTurn
    /\ async.pc = "reading"
    /\ async' = async_read_more(async)
    /\ UNCHANGED <<fs, sync, envSteps>>

\* The runtime polls the task after the read on the pool ended.
AsyncResume ==
    /\ AsyncTurn
    /\ async.pc = "ready"
    /\ async' = async_resume(async)
    /\ UNCHANGED <<fs, sync, envSteps>>

\* The task that awaits the call is cancelled while the read is pending.
AsyncCancel ==
    /\ async.pc \in {"read", "reading", "ready"}
    /\ async' = async_cancel(async)
    /\ UNCHANGED <<fs, sync, envSteps>>

EnvWrite(d) ==
    /\ envSteps < MaxEnvSteps
    /\ InCall
    /\ Aligned \/ async.pc = "ready"
    /\ fs.kind = "file"
    /\ d # fs.data
    /\ fs' = [fs EXCEPT !.data = d]
    /\ sync' = written(sync, d)
    /\ async' = written(async, d)
    /\ envSteps' = envSteps + 1

EnvReplace(e) ==
    /\ envSteps < MaxEnvSteps
    /\ InCall
    /\ Aligned \/ async.pc = "ready"
    /\ e # fs
    /\ fs' = e
    /\ sync' = detached(sync)
    /\ async' = detached(async)
    /\ envSteps' = envSteps + 1

Next ==
    \/ \E method \in Methods : Call(method)
    \/ SyncIsFile
    \/ SyncExists
    \/ SyncReadOpen
    \/ SyncReadMore
    \/ AsyncIsFile
    \/ AsyncExists
    \/ AsyncReadOpen
    \/ AsyncReadMore
    \/ AsyncResume
    \/ AsyncCancel
    \/ \E d \in Contents : EnvWrite(d)
    \/ \E e \in Entries : EnvReplace(e)

Spec == Init /\ [][Next]_vars

(***************************************************************************)
(* Reference values.                                                       *)
(***************************************************************************)
\* The digests the tests of the blocking form assert for .gitignore.
sync_tests(method) ==
    CASE method = "sha224" ->
           "e7f68a0e088b02bded91142bb43538b0338ead063a1bdf1d158ef174"
      [] method = "sha256" ->
           "44c92e3a70ad3307b7056871c2bdb096d8bfa9373f5bf06a79bb6324a20ff2fb"
      [] method = "sha384" ->
           "16c6a6c5fb77fb778b0739b93005a54bf4d5d011ecfc151d1d28680df65829fb25e4f639d12ea5bd0d95fb15a02a9d46"
      [] OTHER ->
           "cce95db66253cee0b4543434b0a93382fdd876996f0783709144d7317cc1686b97f907a4f18da2bdf95461b140129eb93242a842b3eee0878973ac139482db54"

\* The digests the tests of the suspending form assert for tests/data/test.txt.
async_tests(method) ==
    CASE method = "sha224" ->
           "c547cf5d6bf6b795abbe4c5cc7cac00f1d5ec17bcd74281ea89e6108"
      [] method = "sha256" ->
           "c98c24b677eff44860afea6f493bbaec5bb1c4cbb209c6fc2bbb47f66ff2ad31"
      [] method = "sha384" ->
           "d195483c9b554356ba50a855a605aaee134612dcfdd05988fc605181d93603f215a0d07812a0b333fc2ccc75025736f5"
      [] OTHER ->
           "921618bc6d9f8059437c5e0397b13f973ab7c7a7b81f0ca31b70bf448fd800a460b67efda0020088bc97bf7d9da97a9e2ce7b20d46e066462ec44cf60284f9a7"

\* The digests of the empty input (FIPS 180-4 known answers).
EmptyInputDigest(method) ==
    CASE method = "sha224" ->
           "d14a028c2a3a2bc9476102bb288234c415a2b01f828ea62ac5b3e42f"
      [] method = "sha256" ->
           "e3b0c44298fc1c149afbf4c8996fb92427ae41e4649b934ca495991b7852b855"
      [] method = "sha384" ->
           "38b060a751ac96384cd9327eb1b1e36a21fdb71114be07434c0cc7bf63f6e1da274edebfe76f65fbd51ad2f14898b95b"
      [] OTHER ->
           "cf83e1357eefb8bdf1542850d66d8007d620e4050b5715dc83f4a921d36ce9ce47d0d13c5d85f2b0ff8318d2877eec2f63b931bd47417a81a538327af927da3e"

\* The characters of a hex string joined into one string.
RECURSIVE Join(_, _, _)
Join(chars, lo, hi) ==
    IF lo > hi THEN ""
    ELSE IF lo = hi THEN chars[lo]
    ELSE LET mid == (lo + hi) \div 2
         IN  Join(chars, lo, mid) \o Join(chars, mid + 1, hi)

AsString(chars) == Join(chars, 1, Len(chars))

\* The two calls, and the errors a call returned before it read.
BothCalls == {sync, async}
FailedCheck(call) ==
    call.pc = "done" /\ call.result.tag = "err" /\ call.atOpen = Unseen
IsReadable(e) == e.kind = "file" /\ e.readable

(***************************************************************************)
(* Properties.                                                             *)
(***************************************************************************)
\* C1: in both forms and for each of the four methods, a call on a path that
\* does not exist (at the is_file query and at the exists query) fails with
\* an error of kind NotFound, and returns no digest.
C1_MissingPathNotFound ==
    \A call \in BothCalls :
        (/\ call.pc = "done"
         /\ call.atIsFile.kind = "missing"
         /\ call.atExists.kind = "missing")
        => /\ call.result.tag = "err"
           /\ call.result.kind = "NotFound"
           /\ call.updates = <<>>

C1_Witness ==
    /\ sync.pc = "done" /\ async.pc = "done"
    /\ sync.method = "sha384"
    /\ sync.atIsFile = Missing /\ sync.atExists = Missing
    /\ async.atIsFile = Missing /\ async.atExists = Missing
    /\ sync.result.tag = "err" /\ sync.result.kind = "NotFound"
    /\ async.result.tag = "err" /\ async.result.kind = "NotFound"

\* C2: a call on a path that exists but is not a regular file fails with
\* InvalidInput, and never the other way round, also when the path changes
\* between the is_file query and the exists query: an error of the check is
\* InvalidInput only if a query saw an entry that is not a regular file, and
\* NotFound only if a query saw no entry.
C2_KindFollowsPath ==
    \A call \in BothCalls :
        FailedCheck(call)
        => /\ (call.atIsFile.kind = "dir" /\ call.atExists.kind = "dir"
                  => call.result.kind = "InvalidInput")
           /\ (call.result.kind = "InvalidInput"
                  => "dir" \in {call.atIsFile.kind, call.atExists.kind})
           /\ (call.result.kind = "NotFound"
                  => {call.atIsFile.kind, call.atExists.kind}
                         \cap {"missing", "dangling", "denied"} # {})

\* C3: when the check passes and the read fails, the call returns the error
\* of the read, with the kind and the message of the operating system, not
\* the error of the check, and hashes nothing.
C3_ReadErrorUnchanged ==
    \A call \in BothCalls :
        (/\ call.pc = "done"
         /\ call.atOpen # Unseen
         /\ ~IsReadable(call.atOpen))
        => /\ call.result.tag = "err"
           /\ call.result.kind =
                  (CASE call.atOpen.kind = "missing" -> "NotFound"
                     [] call.atOpen.kind = "dangling" -> "NotFound"
                     [] call.atOpen.kind = "dir" -> "IsADirectory"
                     [] OTHER -> "PermissionDenied")
           /\ call.result.msg \in {"os error 2", "os error 13", "os error 21"}
           /\ call.updates = <<>>

C3_Witness ==
    /\ sync.pc = "done"
    /\ sync.atIsFile = RegularFile(Fixture, TRUE)
    /\ sync.atOpen = Missing
    /\ sync.result = [tag |-> "err", kind |-> "NotFound", msg |-> "os error 2"]
    /\ async.pc = "done"
    /\ async.atOpen = Missing
    /\ async.result = sync.result

\* C4 as the specification states it: when the path is altered or deleted
\* between the check and the read, the call ends with an error of the read,
\* and a call that returns a digest hashed the content that passed the check.
C4_RaceIsReadError ==
    \A call \in BothCalls :
        (call.pc = "done" /\ call.atOpen # Unseen)
        => /\ (call.atOpen.kind # "file" \/ call.atOpen.data # call.atIsFile.data
                  => call.result.tag = "err")
           /\ (call.result.tag = "ok" => call.updates = <<call.atIsFile.data>>)

\* The digest a call returns for the bytes its read delivered.
HashesWhatItRead(call, D) ==
    /\ call.result.tag = "ok"
    /\ call.eof
    /\ call.updates = <<call.buf>>
    /\ call.result.hex = encode_hex(digest(D, call.buf))

\* C4: when the path no longer names a readable regular file at the read,
\* the call ends with the error of the read and no digest; when it names a
\* readable regular file, altered or not since the check, the read succeeds
\* and the call returns the digest of the bytes the read delivered.
C4_RaceReadsCurrentFile ==
    /\ \A call \in BothCalls :
           (call.pc = "done" /\ call.atOpen # Unseen /\ ~IsReadable(call.atOpen))
           => /\ call.result.tag = "err"
              /\ call.result.msg # "Invalid path: must be an existing and accessible file"
              /\ call.updates = <<>>
    /\ (sync.pc = "done" /\ sync.atOpen # Unseen /\ IsReadable(sync.atOpen))
           => HashesWhatItRead(sync, sync_digest(sync.method))
    /\ (async.pc = "done" /\ async.atOpen # Unseen /\ IsReadable(async.atOpen))
           => HashesWhatItRead(async, async_digest(async.method))

C4_Witness ==
    /\ sync.pc = "done"
    /\ sync.method = "sha256"
    /\ sync.atIsFile = RegularFile(Abc, TRUE)
    /\ sync.atOpen = RegularFile(Fixture, TRUE)
    /\ sync.result.tag = "ok"
    /\ sync.updates = <<Fixture>>
    /\ AsString(sync.result.hex) = sync_tests("sha256")

\* C5: for every history of the path and every method, the blocking and the
\* suspending form of a call that made the same queries end with the same
\* result: the same hex string, or an error of the same kind.
C5_FormsAgree ==
    (/\ sync.pc = "done" /\ async.pc = "done"
     /\ sync.method = async.method
     /\ sync.atIsFile = async.atIsFile
     /\ sync.atExists = async.atExists
     /\ sync.atOpen = async.atOpen)
    => sync.result = async.result

C5_Witness ==
    /\ sync.pc = "done" /\ async.pc = "done"
    /\ sync.method = "sha512" /\ async.method = "sha512"
    /\ sync.atIsFile = RegularFile(TestTxt, TRUE)
    /\ sync.result.tag = "ok"
    /\ async.result = sync.result
    /\ AsString(async.result.hex) = async_tests("sha512")

\* C6: a call of the suspending form that is cancelled while its read is
\* pending yields nothing, and a call of the suspending form that yields a
\* digest finished its read and hashed the whole of it.
C6_NoPartialDigest ==
    /\ async.pc = "cancelled" => async.result = None /\ async.updates = <<>>
    /\ async.result.tag = "ok"
           => /\ async.eof
              /\ async.updates = <<async.buf>>
              /\ Len(async.buf) >= Len(async.fdData)

C6_Witness ==
    /\ async.pc = "cancelled"
    /\ Len(async.buf) > 0
    /\ Len(async.buf) < Len(async.fdData)
    /\ async.result = None

\* C7: a successful call returns exactly 2 x digest_size characters (56, 64,
\* 96, 128 for sha224, sha256, sha384, sha512), each in 0-9a-f.
C7_HexLength ==
    \A call \in BothCalls :
        call.result.tag = "ok"
        => /\ Len(call.result.hex) =
                  (CASE call.method = "sha224" -> 56
                     [] call.method = "sha256" -> 64
                     [] call.method = "sha384" -> 96
                     [] OTHER -> 128)
           /\ \A i \in 1..Len(call.result.hex) :
                  call.result.hex[i] \in
                      {"0", "1", "2", "3", "4", "5", "6", "7", "8", "9",
                       "a", "b", "c", "d", "e", "f"}

C7_Witness ==
    /\ sync.pc = "done"
    /\ sync.method = "sha224"
    /\ sync.result.tag = "ok"
    /\ Len(sync.result.hex) = 56
    /\ async.pc = "done"
    /\ async.result.tag = "ok"
    /\ Len(async.result.hex) = 56

\* C8: a successful call hashed, in one update, the complete contents of the
\* file (the contents of the path, when nothing changed it during the call),
\* and its string depends on those bytes and the method only: the empty
\* file gives the digest of the empty input, and the fixtures give the
\* digests the tests assert.
C8_DigestOfContents ==
    \A call \in BothCalls :
        call.result.tag = "ok"
        => /\ Len(call.updates) = 1
           /\ call.eof
           /\ (call.envAtCall = envSteps
                  => fs.kind = "file" /\ call.updates[1] = fs.data)
           /\ (call.updates[1] = Empty
                  => AsString(call.result.hex) = EmptyInputDigest(call.method))
           /\ (call.updates[1] = Fixture
                  => AsString(call.result.hex) = sync_tests(call.method))
           /\ (call.updates[1] = TestTxt
                  => AsString(call.result.hex) = async_tests(call.method))

C8_Witness ==
    /\ sync.pc = "done" /\ async.pc = "done"
    /\ sync.method = "sha256"
    /\ sync.envAtCall = envSteps
    /\ fs = RegularFile(Fixture, TRUE)
    /\ sync.updates = <<Fixture>>
    /\ AsString(sync.result.hex)
           = "44c92e3a70ad3307b7056871c2bdb096d8bfa9373f5bf06a79bb6324a20ff2fb"
    /\ async.result = sync.result

\* C9: within a call the steps are ordered check, read, hash; a call whose
\* check fails returns at once without a read; a read is attempted only
\* after the check passed, at most once, and nothing follows a failure.
C9_StepOrder ==
    \A call \in BothCalls :
        /\ call.trace \in {<<>>, <<"is_file">>, <<"is_file", "exists">>,
                           <<"is_file", "read">>, <<"is_file", "read", "hash">>}
        /\ (call.atExists # Unseen
               => call.atOpen = Unseen /\ call.pc = "done" /\ call.result.tag = "err")
        /\ (call.atOpen # Unseen => call.atIsFile.kind = "file")
        /\ (call.result.tag = "err" => call.pc = "done" /\ call.updates = <<>>)

C9_Witness ==
    /\ sync.pc = "done"
    /\ sync.trace = <<"is_file", "read">>
    /\ sync.result.tag = "err"
    /\ async.pc = "done"
    /\ async.trace = <<"is_file", "read">>

\* C10: an error returned before the read has kind NotFound or InvalidInput
\* and the fixed message; a path whose lookup fails (a parent that may not be
\* searched, a dangling link) is reported as NotFound, the error of the
\* lookup is not propagated.
C10_CheckErrors ==
    \A call \in BothCalls :
        FailedCheck(call)
        => /\ call.result.kind \in {"NotFound", "InvalidInput"}
           /\ call.result.msg = "Invalid path: must be an existing and accessible file"
           /\ ((/\ call.atIsFile.kind \in {"denied", "dangling"}
                /\ call.atExists.kind \in {"denied", "dangling"})
                   => call.result.kind = "NotFound")

C10_Witness ==
    /\ sync.pc = "done" /\ async.pc = "done"
    /\ sync.atIsFile = Denied /\ sync.atExists = Denied
    /\ sync.result = [tag |-> "err", kind |-> "NotFound",
                      msg |-> "Invalid path: must be an existing and accessible file"]
    /\ async.result = sync.result

====
